---- MODULE Spec2Model ----
(***************************************************************************)
(* Model of src/host.js: the Koa middleware that serves the Chrome Dev     *)
(* Summit site.  The module state of host.js (isProd, prodAmpCss,          *)
(* fallbackProdAmpCss, sections) and the flat dispatcher callback, with    *)
(* its two suspension points (await less.render, await ctx.render), are    *)
(* modelled as a state machine over a bounded number of requests.          *)
(*                                                                         *)
(* JavaScript strings are sequences of one-character strings.  JavaScript  *)
(* values that may be undefined are tagged records, so that truthiness,    *)
(* || and === undefined are computed as the language computes them.        *)
(***************************************************************************)
EXTENDS Integers, Sequences, FiniteSets, TLC

VARIABLES
  isProd,              \* host.js:36
  prodAmpCss,          \* host.js:62
  fallbackProdAmpCss,  \* host.js:63
  sections,            \* host.js:93
  dirEntries,          \* what readdirSync returns for the sections directory
  scanned,             \* the sections directory has been read
  mountPrefix,         \* where the host mounted the app (koa-mount), fixed per process
  lessOutput,          \* the CSS less.render produces from static/styles/amp.less
  req,                 \* per request: the dispatcher's locals and its observable effects
  lessCalls,           \* number of less.render invocations so far
  mOriginal,           \* mount-path resolver under test: ctx.originalUrl
  mCurrent,            \* mount-path resolver under test: ctx.url
  mResult              \* mount-path resolver under test: returned value

vars == <<isProd, prodAmpCss, fallbackProdAmpCss, sections, dirEntries, scanned,
          mountPrefix, lessOutput, req, lessCalls, mOriginal, mCurrent, mResult>>

hostVars == <<isProd, prodAmpCss, fallbackProdAmpCss, sections, dirEntries, scanned,
              mountPrefix, lessOutput, req, lessCalls>>

mountVars == <<mOriginal, mCurrent, mResult>>

----------------------------------------------------------------------------
(* Bounds *)

NumReq == 2

MaxOriginalLen == 4

MaxCurrentLen == 3

MaxDirLen == 3

----------------------------------------------------------------------------
(* JavaScript values *)

Undefined == [t |-> "undefined"]

Str(s) == [t |-> "string", v |-> s]

Buf(s) == [t |-> "buffer", v |-> s]

Obj(o) == [t |-> "object", v |-> o]

Fun(n) == [t |-> "function", name |-> n]

\* ToBoolean: undefined and '' are falsy; buffers, objects and functions are truthy
Truthy(x) ==
  CASE x.t = "undefined" -> FALSE
    [] x.t = "string"    -> x.v # <<>>
    [] OTHER             -> TRUE

\* a || b
Or(a, b) == IF Truthy(a) THEN a ELSE b

\* String.prototype.startsWith
StartsWith(s, p) == Len(s) >= Len(p) /\ SubSeq(s, 1, Len(p)) = p

\* String.prototype.endsWith
EndsWith(s, p) == Len(s) >= Len(p) /\ SubSeq(s, Len(s) - Len(p) + 1, Len(s)) = p

\* Array.prototype.indexOf, 0-based, -1 when absent
IndexOf(arr, x) ==
  IF \E i \in 1..Len(arr) : arr[i] = x
    THEN (CHOOSE i \in 1..Len(arr) : arr[i] = x /\ \A j \in 1..(i - 1) : arr[j] # x) - 1
    ELSE -1

----------------------------------------------------------------------------
(* String literals of the program and of its environment *)

sSchedule == <<"s","c","h","e","d","u","l","e">>

sIndex == <<"i","n","d","e","x">>

sAmpSession == <<"_","a","m","p","-","s","e","s","s","i","o","n">>

sDotHtml == <<".","h","t","m","l">>

sDevsummit == <<"d","e","v","s","u","m","m","i","t">>

sAmp == <<"a","m","p">>

sHttps == <<"h","t","t","p","s",":","/","/">>

sHttp == <<"h","t","t","p",":","/","/">>

sRes == <<"r","e","s">>

sSrc == <<"s","r","c">>

sConstructor == <<"c","o","n","s","t","r","u","c","t","o","r">>

sObject == <<"O","b","j","e","c","t">>

sUnderscoreProto == <<"_","_","p","r","o","t","o","_","_">>

sApp == <<"/","a","p","p">>

sHost == <<"h">>

----------------------------------------------------------------------------
(* Environment: the files and data the module reads at startup *)

\* entries of the sections directory, in readdirSync order
SectionsDir ==
  << sIndex \o sDotHtml,
     sSchedule \o sDotHtml,
     sAmpSession \o sDotHtml,
     <<"n","o","t","e","s">> >>

\* schedule.sessions: session id -> session record (own properties only)
Sessions ==
  ( <<"a">>     :> [name |-> <<"T">>, time_label |-> <<"9">>, description |-> <<"d">>] ) @@
  ( <<"b">>     :> [speaker |-> <<"x">>] ) @@
  ( <<"_","x">> :> [name |-> <<"R">>] )

\* properties every plain object inherits from Object.prototype
ObjectPrototype ==
  ( sConstructor     :> Fun(sObject) ) @@
  ( sUnderscoreProto :> Obj([speaker |-> <<>>]) )

\* the precompiled res/amp.css on disk: missing, or present with some content
Artifacts == { Undefined, Buf(<<"e">>), Buf(<<>>) }

\* what less.render yields for static/styles/amp.less
LessOutputs == { <<"c">>, <<>> }

\* where the host mounts the app; Undefined: ctx.originalUrl is not available
MountPrefixes == { Undefined, Str(<<>>), Str(sApp) }

\* the requests the model sends: first path segment and sub-path
Paths == { sIndex, sSchedule, sAmpSession }

Rests == { Undefined, Str(<<>>), Str(<<"a">>), Str(<<"b">>), Str(<<"_","x">>),
           Str(<<"c">>), Str(sConstructor) }

Hosts == { sHost }

\* every sub-path under schedule, a few under the other paths
Requests ==
  { [path |-> sSchedule, rest |-> rest] : rest \in Rests } \cup
  { [path |-> path, rest |-> rest] :
      path \in Paths, rest \in { Undefined, Str(<<"a">>) } }

Req == 1..NumReq

----------------------------------------------------------------------------
(* Startup code of host.js *)

\* policy(isProd): the precomputed Feature-Policy string
policyHeader(prod) == Str(<<"p", IF prod THEN "1" ELSE "0">>)

\* readProdAmpCss(): readFileSync result, or undefined when the read throws
readProdAmpCss(artifact) == IF artifact.t = "buffer" THEN artifact ELSE Undefined

\* const prodAmpCss = isProd ? readProdAmpCss() : undefined
InitProdAmpCss(prod, artifact) == IF prod THEN readProdAmpCss(artifact) ELSE Undefined

\* const sourcePrefix = isProd ? 'res' : 'src'
sourcePrefix(prod) == IF prod THEN sRes ELSE sSrc

\* faulty variant: the extension alone decides, section[0] is not looked at
SectionOfAnyPrefix(section) ==
  IF EndsWith(section, sDotHtml)
    THEN Str(SubSeq(section, 1, Len(section) - 5))
    ELSE Undefined

\* the callback of .map(): the stripped name, or undefined (no return)
SectionOf(section) ==
  IF EndsWith(section, sDotHtml) /\ (section = <<>> \/ section[1] # "_")
    THEN Str(SubSeq(section, 1, Len(section) - 5))
    ELSE Undefined

RECURSIVE FilterBoolean(_)
\* .filter(Boolean) over the mapped entries, unwrapped to strings
FilterBoolean(arr) ==
  IF arr = <<>> THEN <<>>
  ELSE IF Truthy(Head(arr)) THEN <<Head(arr).v>> \o FilterBoolean(Tail(arr))
  ELSE FilterBoolean(Tail(arr))

\* fs.readdirSync(...).map(...).filter(Boolean)
ListSections(dir) == FilterBoolean([i \in 1..Len(dir) |-> SectionOf(dir[i])])

----------------------------------------------------------------------------
(* mountUrl *)

RECURSIVE LastIndexFrom(_, _, _)
\* scan for p in s from 0-based position i downwards
LastIndexFrom(s, p, i) ==
  IF i < 0 THEN -1
  ELSE IF SubSeq(s, i + 1, i + Len(p)) = p THEN i
  ELSE LastIndexFrom(s, p, i - 1)

\* faulty variant: String.prototype.indexOf in place of lastIndexOf
FirstIndexOf(s, p) ==
  IF \E i \in 0..(Len(s) - Len(p)) : SubSeq(s, i + 1, i + Len(p)) = p
    THEN CHOOSE i \in 0..(Len(s) - Len(p)) :
           /\ SubSeq(s, i + 1, i + Len(p)) = p
           /\ \A j \in 0..(i - 1) : SubSeq(s, j + 1, j + Len(p)) # p
    ELSE -1

\* String.prototype.lastIndexOf
LastIndexOf(s, p) == LastIndexFrom(s, p, Len(s) - Len(p))

\* faulty variant: the prefix before the first occurrence
mountUrlFirstOccurrence(originalUrl, url) ==
  IF originalUrl = Undefined THEN <<>>
  ELSE LET index == FirstIndexOf(originalUrl.v, url)
       IN  IF index = -1 THEN <<>> ELSE SubSeq(originalUrl.v, 1, index)

\* mountUrl(ctx) over ctx.originalUrl and ctx.url
mountUrl(originalUrl, url) ==
  IF originalUrl = Undefined THEN <<>>
  ELSE LET index == LastIndexOf(originalUrl.v, url)
       IN  IF index = -1 THEN <<>> ELSE SubSeq(originalUrl.v, 1, index)

----------------------------------------------------------------------------
(* The flat dispatcher callback, host.js:116-174 *)

\* ctx.url of a request for /<path> or /<path>/<rest>
RequestUrl(path, rest) ==
  <<"/">> \o path \o (IF Truthy(rest) THEN <<"/">> \o rest.v ELSE <<>>)

\* ctx.originalUrl: the url before the host stripped its mount prefix
OriginalUrl(prefix, url) == IF prefix = Undefined THEN Undefined ELSE Str(prefix.v \o url)

\* faulty variant: the index tested for truthiness, !sections.indexOf(path)
SectionMatchedTruthy(secs, path) == IndexOf(secs, path) # 0

\* sections.indexOf(path) === -1 is false
SectionMatched(secs, path) == IndexOf(secs, path) # -1

\* faulty variant: if (rest !== undefined)
HasRestDefined(rest) == rest # Undefined

\* if (rest)
HasRest(rest) == Truthy(rest)

\* faulty variant: the comparison inverted, path === 'schedule'
AcceptsSubPathInverted(path) == path # sSchedule

\* path !== 'schedule' is false
AcceptsSubPath(path) == path = sSchedule

\* schedule.sessions[rest]: own property first, then the prototype chain
SessionLookup(rest) ==
  IF rest \in DOMAIN Sessions THEN Obj(Sessions[rest])
  ELSE IF rest \in DOMAIN ObjectPrototype THEN ObjectPrototype[rest]
  ELSE Undefined

\* faulty variant: !data alone, the reserved ids not checked
SessionRejectedNoData(data, rest) == ~Truthy(data)

\* !data || rest.startsWith('_')
SessionRejected(data, rest) == ~Truthy(data) \/ StartsWith(rest, <<"_">>)

\* data.<field>
GetProp(data, field) ==
  CASE data.t = "object" ->
         IF field \in DOMAIN data.v THEN Str(data.v[field]) ELSE Undefined
    [] data.t = "function" ->
         IF field = "name" THEN Str(data.name) ELSE Undefined
    [] OTHER -> Undefined

\* faulty variant: let css = fallbackProdAmpCss
CacheCheckLazyOnly(eager, lazy) == lazy

\* faulty variant: let css = prodAmpCss
CacheCheckEagerOnly(eager, lazy) == eager

\* let css = prodAmpCss || fallbackProdAmpCss
CacheCheck(eager, lazy) == Or(eager, lazy)

\* faulty variant: if (!css)
CacheMissFalsy(css) == ~Truthy(css)

\* css === undefined
CacheMiss(css) == css = Undefined

\* faulty variant: the assignment without its if (isProd)
PersistAlways(prod, cell, css) == css

\* faulty variant: css.length, which the debug line prints, is what gets saved
PersistLength(prod, cell, css) == IF prod THEN Str(<<"n">>) ELSE cell

\* faulty variant: the result is never saved
PersistNever(prod, cell, css) == cell

\* if (isProd) fallbackProdAmpCss = css
PersistFallback(prod, cell, css) == IF prod THEN css ELSE cell

\* (isProd ? 'https://' : 'http://') + hostname + basepath
SitePrefix(prod, hostname, basepath) ==
  (IF prod THEN sHttps ELSE sHttp) \o hostname \o basepath

\* const scope = {...}
BaseScope(prod, basepath) ==
  [ year         |-> 2018,
    prod         |-> prod,
    base         |-> basepath,
    layout       |-> sDevsummit,
    ua           |-> "UA-41980257-1",
    conversion   |-> 935743779,
    sourcePrefix |-> sourcePrefix(prod),
    days         |-> "days" ]

\* faulty variant: the three fields without their || ''
AmpScopeNoDefaults(scope, sitePrefix, data, css) ==
  [ layout      |-> sAmp,
    sitePrefix  |-> sitePrefix,
    title       |-> GetProp(data, "name"),
    time_label  |-> GetProp(data, "time_label"),
    description |-> GetProp(data, "description"),
    payload     |-> data,
    styles      |-> css ] @@ scope

\* the assignments of host.js:162-168
AmpScope(scope, sitePrefix, data, css) ==
  [ layout      |-> sAmp,
    sitePrefix  |-> sitePrefix,
    title       |-> Or(GetProp(data, "name"), Str(<<>>)),
    time_label  |-> Or(GetProp(data, "time_label"), Str(<<>>)),
    description |-> Or(GetProp(data, "description"), Str(<<>>)),
    payload     |-> data,
    styles      |-> css ] @@ scope

\* path = '_amp-session'
AmpTemplate == sAmpSession

\* a request that has not arrived yet
IdleReq ==
  [ pc          |-> "idle",      \* idle, less (await less.render), render (await ctx.render), done
    promise     |-> "pending",   \* the callback's promise: pending, resolved, rejected
    outcome     |-> "none",      \* none, Deferred, Rendered, Failed
    argPath     |-> <<>>,        \* the callback's arguments and ctx
    rest        |-> Undefined,
    host        |-> <<>>,
    originalUrl |-> Undefined,
    url         |-> <<>>,
    path        |-> <<>>,        \* the local path, reassigned on the AMP branch
    basepath    |-> <<>>,
    data        |-> Undefined,
    css         |-> Undefined,
    scope       |-> <<>>,
    rendered    |-> Undefined,   \* the first argument of ctx.render
    header      |-> Undefined,   \* Feature-Policy as set by ctx.set
    headerAtRender |-> Undefined, \* Feature-Policy of the response when ctx.render was called
    nextCalls   |-> 0,
    renderCalls |-> 0,
    lessInvoked |-> 0,
    lookedUp    |-> FALSE,       \* schedule.sessions was indexed with rest
    cacheRead   |-> FALSE,       \* prodAmpCss || fallbackProdAmpCss was evaluated
    cellWrites  |-> 0 ]

\* the callback is entered with its arguments
Arrived(path, rest, host) ==
  LET url == RequestUrl(path, rest)
  IN  [IdleReq EXCEPT !.argPath = path, !.path = path, !.rest = rest, !.host = host,
                      !.url = url, !.originalUrl = OriginalUrl(mountPrefix, url)]

\* faulty variant: scope is one module-level object, still holding what the
\* previous request assigned to it
EnteredSharedScope(path, rest, host) ==
  LET a        == Arrived(path, rest, host)
      basepath == mountUrl(a.originalUrl, a.url)
      earlier  == { p \in Req : req[p].pc # "idle" /\ DOMAIN req[p].scope # {} }
  IN  [a EXCEPT !.basepath = basepath,
                !.scope = IF earlier = {}
                            THEN BaseScope(isProd, basepath)
                            ELSE req[CHOOSE p \in earlier : \A o \in earlier : o <= p].scope]

\* host.js:121-135
Entered(path, rest, host) ==
  LET a        == Arrived(path, rest, host)
      basepath == mountUrl(a.originalUrl, a.url)
  IN  [a EXCEPT !.basepath = basepath, !.scope = BaseScope(isProd, basepath)]

\* faulty variant: next() without return, the callback runs on to host.js:172-173
CallNextNoReturn(q) ==
  [q EXCEPT !.nextCalls = @ + 1, !.header = policyHeader(isProd), !.rendered = Str(q.path),
            !.renderCalls = @ + 1, !.outcome = "Rendered", !.pc = "render"]

\* return next()
CallNext(q) ==
  [q EXCEPT !.nextCalls = @ + 1, !.outcome = "Deferred", !.pc = "done", !.promise = "resolved"]

\* ctx.set('Feature-Policy', policyHeader)
SetHeader(q) == [q EXCEPT !.header = policyHeader(isProd)]

\* ctx.render(path, scope) is called and awaited
StartRender(q) ==
  [q EXCEPT !.rendered = Str(q.path), !.headerAtRender = q.header,
            !.renderCalls = @ + 1, !.outcome = "Rendered", !.pc = "render"]

\* faulty variant: the two statements in the opposite order
RenderThenSetHeader(q) == SetHeader(StartRender(q))

\* host.js:172-173 up to the suspension in ctx.render
SetHeaderAndRender(q) == StartRender(SetHeader(q))

\* host.js:161-169
FillAmp(q, css) ==
  [q EXCEPT !.css = css,
            !.scope = AmpScope(q.scope, SitePrefix(isProd, q.host, q.basepath), q.data, css),
            !.path = AmpTemplate]

\* host.js:143 and 148 on an entered request
LookedUp(q) == [q EXCEPT !.data = SessionLookup(q.rest.v), !.lookedUp = TRUE]

CacheChecked(q) ==
  [q EXCEPT !.css = CacheCheck(prodAmpCss, fallbackProdAmpCss), !.cacheRead = TRUE]

\* faulty variant: the callback is entered only when no request is in flight
MayArriveSerialized(r) ==
  /\ req[r].pc = "idle"
  /\ \A p \in Req : p < r => req[p].pc = "done"

\* requests are numbered in arrival order
MayArrive(r) ==
  /\ req[r].pc = "idle"
  /\ \A p \in Req : p < r => req[p].pc # "idle"

----------------------------------------------------------------------------
(* Actions: each runs the callback from its entry, or from the await it is
   suspended in, to its next await or return *)

\* host.js:117-119: the path is no registered section
DeferUnmatched(r) ==
  \E rq \in Requests, host \in Hosts :
    /\ MayArrive(r)
    /\ ~SectionMatched(sections, rq.path)
    /\ req' = [req EXCEPT ![r] = CallNext(Arrived(rq.path, rq.rest, host))]
    /\ UNCHANGED <<isProd, prodAmpCss, fallbackProdAmpCss, sections, dirEntries, scanned, mountPrefix,
                   lessOutput, lessCalls, mountVars>>

\* host.js:137 false, then 172-173: a section without sub-path
RenderPlain(r) ==
  \E rq \in Requests, host \in Hosts :
    /\ MayArrive(r)
    /\ SectionMatched(sections, rq.path)
    /\ ~HasRest(rq.rest)
    /\ req' = [req EXCEPT ![r] = SetHeaderAndRender(Entered(rq.path, rq.rest, host))]
    /\ UNCHANGED <<isProd, prodAmpCss, fallbackProdAmpCss, sections, dirEntries, scanned, mountPrefix,
                   lessOutput, lessCalls, mountVars>>

\* host.js:138-140: a sub-path under a section other than schedule
DeferSubPath(r) ==
  \E rq \in Requests, host \in Hosts :
    /\ MayArrive(r)
    /\ SectionMatched(sections, rq.path)
    /\ HasRest(rq.rest)
    /\ ~AcceptsSubPath(rq.path)
    /\ req' = [req EXCEPT ![r] = CallNext(Entered(rq.path, rq.rest, host))]
    /\ UNCHANGED <<isProd, prodAmpCss, fallbackProdAmpCss, sections, dirEntries, scanned, mountPrefix,
                   lessOutput, lessCalls, mountVars>>

\* host.js:143-146: the lookup yields nothing, or the id is reserved
DeferSession(r) ==
  \E rq \in Requests, host \in Hosts :
    /\ MayArrive(r)
    /\ SectionMatched(sections, rq.path)
    /\ HasRest(rq.rest)
    /\ AcceptsSubPath(rq.path)
    /\ LET q == LookedUp(Entered(rq.path, rq.rest, host))
       IN  /\ SessionRejected(q.data, rq.rest.v)
           /\ req' = [req EXCEPT ![r] = CallNext(q)]
    /\ UNCHANGED <<isProd, prodAmpCss, fallbackProdAmpCss, sections, dirEntries, scanned, mountPrefix,
                   lessOutput, lessCalls, mountVars>>

\* host.js:148-149 false, then 161-173: the CSS comes from one of the two cells
RenderAmpCached(r) ==
  \E rq \in Requests, host \in Hosts :
    /\ MayArrive(r)
    /\ SectionMatched(sections, rq.path)
    /\ HasRest(rq.rest)
    /\ AcceptsSubPath(rq.path)
    /\ LET q == LookedUp(Entered(rq.path, rq.rest, host))
           c == CacheChecked(q)
       IN  /\ ~SessionRejected(q.data, rq.rest.v)
           /\ ~CacheMiss(c.css)
           /\ req' = [req EXCEPT ![r] = SetHeaderAndRender(FillAmp(c, c.css))]
    /\ UNCHANGED <<isProd, prodAmpCss, fallbackProdAmpCss, sections, dirEntries, scanned, mountPrefix,
                   lessOutput, lessCalls, mountVars>>

\* host.js:148-152: both cells are empty, less.render is called and awaited
StartLess(r) ==
  \E rq \in Requests, host \in Hosts :
    /\ MayArrive(r)
    /\ SectionMatched(sections, rq.path)
    /\ HasRest(rq.rest)
    /\ AcceptsSubPath(rq.path)
    /\ LET q == LookedUp(Entered(rq.path, rq.rest, host))
           c == CacheChecked(q)
       IN  /\ ~SessionRejected(q.data, rq.rest.v)
           /\ CacheMiss(c.css)
           /\ req' = [req EXCEPT ![r] = [c EXCEPT !.lessInvoked = @ + 1, !.pc = "less"]]
    /\ lessCalls' = lessCalls + 1
    /\ UNCHANGED <<isProd, prodAmpCss, fallbackProdAmpCss, sections, dirEntries, scanned, mountPrefix,
                   lessOutput, mountVars>>

\* host.js:153-173: less.render resolved
LessReturn(r) ==
  /\ req[r].pc = "less"
  /\ LET css  == Str(lessOutput)
         cell == PersistFallback(isProd, fallbackProdAmpCss, css)
     IN  /\ fallbackProdAmpCss' = cell
         /\ req' = [req EXCEPT ![r] =
                      SetHeaderAndRender(FillAmp(
                        [req[r] EXCEPT !.cellWrites = IF isProd THEN @ + 1 ELSE @], css))]
  /\ UNCHANGED <<isProd, prodAmpCss, sections, dirEntries, scanned, mountPrefix,
                 lessOutput, lessCalls, mountVars>>

\* faulty variant: the rejection is caught and less.render called again
LessFailRetry(r) ==
  /\ req[r].pc = "less"
  /\ req[r].lessInvoked < 2
  /\ req' = [req EXCEPT ![r] = [@ EXCEPT !.lessInvoked = @ + 1]]
  /\ lessCalls' = lessCalls + 1
  /\ UNCHANGED <<isProd, prodAmpCss, fallbackProdAmpCss, sections, dirEntries, scanned,
                 mountPrefix, lessOutput, mountVars>>

\* host.js:152: less.render rejected, the callback throws
LessFail(r) ==
  /\ req[r].pc = "less"
  /\ req' = [req EXCEPT ![r] = [@ EXCEPT !.pc = "done", !.promise = "rejected",
                                          !.outcome = "Failed"]]
  /\ UNCHANGED <<isProd, prodAmpCss, fallbackProdAmpCss, sections, dirEntries, scanned, mountPrefix,
                 lessOutput, lessCalls, mountVars>>

\* host.js:173: ctx.render resolved
RenderReturn(r) ==
  /\ req[r].pc = "render"
  /\ req' = [req EXCEPT ![r] = [@ EXCEPT !.pc = "done", !.promise = "resolved"]]
  /\ UNCHANGED <<isProd, prodAmpCss, fallbackProdAmpCss, sections, dirEntries, scanned, mountPrefix,
                 lessOutput, lessCalls, mountVars>>

\* host.js:173: ctx.render rejected, the callback throws
RenderFail(r) ==
  /\ req[r].pc = "render"
  /\ req' = [req EXCEPT ![r] = [@ EXCEPT !.pc = "done", !.promise = "rejected"]]
  /\ UNCHANGED <<isProd, prodAmpCss, fallbackProdAmpCss, sections, dirEntries, scanned, mountPrefix,
                 lessOutput, lessCalls, mountVars>>

\* the module is loaded: host.js:36-98
Init ==
  /\ \E prod \in BOOLEAN, artifact \in Artifacts :
       /\ isProd = prod
       /\ prodAmpCss = InitProdAmpCss(prod, artifact)
  /\ fallbackProdAmpCss = Undefined
  /\ dirEntries = SectionsDir
  /\ scanned = TRUE
  /\ sections = ListSections(dirEntries)
  /\ mountPrefix \in MountPrefixes
  /\ lessOutput \in LessOutputs
  /\ req = [r \in Req |-> IdleReq]
  /\ lessCalls = 0
  /\ mOriginal = Undefined
  /\ mCurrent = <<>>
  /\ mResult = Undefined

Next ==
  \E r \in Req :
    \/ DeferUnmatched(r)
    \/ RenderPlain(r)
    \/ DeferSubPath(r)
    \/ DeferSession(r)
    \/ RenderAmpCached(r)
    \/ StartLess(r)
    \/ LessReturn(r)
    \/ LessFail(r)
    \/ RenderReturn(r)
    \/ RenderFail(r)

Spec == Init /\ [][Next]_vars

\* every pending less.render and ctx.render promise is eventually settled
Settles ==
  \A r \in Req :
    /\ WF_vars(LessReturn(r) \/ LessFail(r))
    /\ WF_vars(RenderReturn(r) \/ RenderFail(r))

\* progress depends neither on the mount prefix nor on the CSS text: one of each
InitLive == Init /\ mountPrefix = Str(sApp) /\ lessOutput = <<"c">>

SpecLive == InitLive /\ [][Next]_vars /\ Settles

----------------------------------------------------------------------------
(* The mount-path resolver on its own: inputs drawn from bounded strings *)

UrlChars == { "/", "a" }

StringsUpTo(n) == UNION { [1..k -> UrlChars] : k \in 0..n }

sAppScheduleAbc == sApp \o <<"/">> \o sSchedule \o <<"/","a","b","c">>

sScheduleAbc == <<"/">> \o sSchedule \o <<"/","a","b","c">>

MountOriginals ==
  {Undefined} \cup { Str(s) : s \in StringsUpTo(MaxOriginalLen) \cup {sAppScheduleAbc, sScheduleAbc} }

MountCurrents == StringsUpTo(MaxCurrentLen) \cup {sScheduleAbc}

InitMount ==
  /\ isProd = FALSE
  /\ prodAmpCss = Undefined
  /\ fallbackProdAmpCss = Undefined
  /\ dirEntries = SectionsDir
  /\ scanned = TRUE
  /\ sections = ListSections(dirEntries)
  /\ mountPrefix = Undefined
  /\ lessOutput = <<>>
  /\ req = [r \in Req |-> IdleReq]
  /\ lessCalls = 0
  /\ mOriginal \in MountOriginals
  /\ mCurrent \in MountCurrents
  /\ mResult = Undefined

\* basepath = mountUrl(ctx)
ResolveMount ==
  /\ mResult = Undefined
  /\ mResult' = Str(mountUrl(mOriginal, mCurrent))
  /\ UNCHANGED <<hostVars, mOriginal, mCurrent>>

NextMount == ResolveMount

SpecMount == InitMount /\ [][NextMount]_vars

----------------------------------------------------------------------------
(* The section registry on its own: directory listings drawn from bounded sets *)

\* entry names a sections directory may hold
FileNames ==
  { <<"a">> \o sDotHtml,
    <<"b">> \o sDotHtml,
    <<"_","a">> \o sDotHtml,
    sDotHtml,
    <<"b">>,
    <<"a",".","h","t","m">> }

\* listings of up to n distinct entries, in any order
ListingsUpTo(n) ==
  UNION { { l \in [1..k -> FileNames] : \A i, j \in 1..k : l[i] = l[j] => i = j } : k \in 0..n }

InitSections ==
  /\ isProd = FALSE
  /\ prodAmpCss = Undefined
  /\ fallbackProdAmpCss = Undefined
  /\ dirEntries \in ListingsUpTo(MaxDirLen)
  /\ scanned = FALSE
  /\ sections = <<>>
  /\ mountPrefix = Undefined
  /\ lessOutput = <<>>
  /\ req = [r \in Req |-> IdleReq]
  /\ lessCalls = 0
  /\ mOriginal = Undefined
  /\ mCurrent = <<>>
  /\ mResult = Undefined

\* const sections = fs.readdirSync(...).map(...).filter(Boolean)
ScanSections ==
  /\ ~scanned
  /\ sections' = ListSections(dirEntries)
  /\ scanned' = TRUE
  /\ UNCHANGED <<isProd, prodAmpCss, fallbackProdAmpCss, dirEntries, mountPrefix,
                 lessOutput, req, lessCalls, mountVars>>

NextSections == ScanSections

SpecSections == InitSections /\ [][NextSections]_vars

----------------------------------------------------------------------------
(* Vocabulary of the properties *)

Started(q) == q.pc # "idle"

Registered(name) == \E i \in 1..Len(sections) : sections[i] = name

\* the request carries a non-empty sub-path
NonEmptyRest(q) == q.rest.t = "string" /\ q.rest.v # <<>>

\* a request for /schedule/<id> with a non-empty <id>
ScheduleSub(q) == Started(q) /\ q.argPath = sSchedule /\ NonEmptyRest(q)

\* <id> is a session of the schedule and is not reserved
ValidSession(id) == id \in DOMAIN Sessions /\ id[1] # "_"

AmpFields == {"sitePrefix", "title", "time_label", "description", "payload", "styles"}

\* the record's field as the context carries it, '' when the record omits it
FieldOrEmpty(rec, field) == IF field \in DOMAIN rec THEN Str(rec[field]) ELSE Str(<<>>)

\* what the AMP CSS cache yields: the eager value, else the rendered stylesheet
ExpectedStyles == IF prodAmpCss # Undefined THEN prodAmpCss ELSE Str(lessOutput)

----------------------------------------------------------------------------
(* C1..C5: outcomes of the dispatcher *)

\* C1: every request /schedule/<id> with non-empty <id> that is absent from the
\* session mapping or starts with '_' is Deferred: next is called, nothing is
\* rendered, the preprocessor is not invoked and the lazy cell is not written.
C1_AbsentOrReservedDeferred ==
  \A r \in Req :
    LET q == req[r] IN
    (ScheduleSub(q) /\ (q.rest.v \notin DOMAIN Sessions \/ q.rest.v[1] = "_")) =>
      /\ q.outcome = "Deferred"
      /\ q.nextCalls = 1
      /\ q.renderCalls = 0
      /\ q.rendered = Undefined
      /\ q.lessInvoked = 0
      /\ q.cellWrites = 0

\* C2: every request /schedule/<id> with <id> a session that is not reserved is
\* never Deferred; unless the preprocessor fails it is Rendered with template
\* '_amp-session', layout 'amp', payload the session record, styles the CSS of
\* the AMP CSS cache and title / time_label / description the record's name /
\* time_label / description, '' for a field the record omits.
C2_ValidSessionRendersAmp ==
  \A r \in Req :
    LET q == req[r] IN
    (ScheduleSub(q) /\ ValidSession(q.rest.v)) =>
      /\ q.outcome \in {"none", "Rendered", "Failed"}
      /\ q.nextCalls = 0
      /\ q.outcome = "none" => q.pc = "less"
      /\ q.outcome = "Failed" => q.lessInvoked = 1 /\ q.promise = "rejected"
      /\ q.outcome = "Rendered" =>
           LET rec == Sessions[q.rest.v] IN
           /\ q.rendered = Str(sAmpSession)
           /\ q.renderCalls = 1
           /\ q.scope.layout = sAmp
           /\ q.scope.payload = Obj(rec)
           /\ q.scope.styles = ExpectedStyles
           /\ q.scope.title = FieldOrEmpty(rec, "name")
           /\ q.scope.time_label = FieldOrEmpty(rec, "time_label")
           /\ q.scope.description = FieldOrEmpty(rec, "description")

\* a session that omits name, time_label and description has been rendered
C2_Witness ==
  \E r \in Req :
    /\ ScheduleSub(req[r])
    /\ req[r].rest.v = <<"b">>
    /\ req[r].outcome = "Rendered"
    /\ req[r].scope.title = Str(<<>>)
    /\ \E p \in Req : req[p].rest = Str(<<"a">>) /\ req[p].argPath = sSchedule
                      /\ req[p].outcome = "Rendered" /\ req[p].scope.title = Str(<<"T">>)

\* C3: a request /S for a registered section S (schedule included) without
\* sub-path is Rendered with template S and layout 'devsummit', carries none of
\* the AMP-only fields and does not invoke the preprocessor.
C3_PlainSectionRendered ==
  \A r \in Req :
    LET q == req[r] IN
    (Started(q) /\ Registered(q.argPath) /\ ~NonEmptyRest(q)) =>
      /\ q.outcome = "Rendered"
      /\ q.rendered = Str(q.argPath)
      /\ q.renderCalls = 1
      /\ q.nextCalls = 0
      /\ q.scope.layout = sDevsummit
      /\ DOMAIN q.scope \cap AmpFields = {}
      /\ q.lessInvoked = 0
      /\ ~q.cacheRead

\* /schedule without sub-path has been rendered, once for each form of "no sub-path"
C3_Witness ==
  /\ \E r \in Req : /\ req[r].argPath = sSchedule /\ req[r].rest = Undefined
                    /\ req[r].outcome = "Rendered" /\ req[r].rendered = Str(sSchedule)
  /\ \E r \in Req : /\ req[r].argPath = sSchedule /\ req[r].rest = Str(<<>>)
                    /\ req[r].outcome = "Rendered"

\* C4: a request whose first path segment is no registered section is Deferred:
\* next is called, nothing is rendered, the Feature-Policy header is not set
\* and the AMP CSS cache is neither read nor written.
C4_UnregisteredDeferred ==
  \A r \in Req :
    LET q == req[r] IN
    (Started(q) /\ ~Registered(q.argPath)) =>
      /\ q.outcome = "Deferred"
      /\ q.nextCalls = 1
      /\ q.renderCalls = 0
      /\ q.rendered = Undefined
      /\ q.header = Undefined
      /\ ~q.cacheRead
      /\ q.lessInvoked = 0
      /\ q.cellWrites = 0

\* '_amp-session', which has a content file but is no section, has been requested
C4_Witness ==
  \E r \in Req :
    /\ req[r].argPath = sAmpSession
    /\ req[r].rest = Str(<<"a">>)
    /\ req[r].outcome = "Deferred"

\* C5: a request with a non-empty sub-path under a registered section other than
\* schedule is Deferred and never Rendered, also when the sub-path is a session id.
C5_SubPathOutsideScheduleDeferred ==
  \A r \in Req :
    LET q == req[r] IN
    (Started(q) /\ Registered(q.argPath) /\ q.argPath # sSchedule /\ NonEmptyRest(q)) =>
      /\ q.outcome = "Deferred"
      /\ q.nextCalls = 1
      /\ q.renderCalls = 0
      /\ q.rendered = Undefined

\* /index/a, with a a valid session id, has been deferred
C5_Witness ==
  \E r \in Req :
    /\ req[r].argPath = sIndex
    /\ req[r].rest = Str(<<"a">>)
    /\ ValidSession(req[r].rest.v)
    /\ req[r].outcome = "Deferred"

----------------------------------------------------------------------------
(* C6..C9: the AMP CSS cache *)

\* the request took the AMP branch and called ctx.render
AmpRendered(q) == q.outcome = "Rendered" /\ q.rendered = Str(sAmpSession)

\* C6: in production with a precompiled artifact that was read, the preprocessor
\* is never invoked, the lazy cell stays empty and every AMP render uses the
\* eager value as its styles.
C6_EagerArtifactNeverRenders ==
  (isProd /\ prodAmpCss # Undefined) =>
    /\ lessCalls = 0
    /\ fallbackProdAmpCss = Undefined
    /\ \A r \in Req :
         /\ req[r].lessInvoked = 0
         /\ req[r].cellWrites = 0
         /\ AmpRendered(req[r]) => req[r].scope.styles = prodAmpCss

\* with an empty artifact read at startup, two AMP requests have been rendered
C6_Witness ==
  /\ isProd
  /\ prodAmpCss = Buf(<<>>)
  /\ \A r \in Req : AmpRendered(req[r]) /\ req[r].cacheRead

\* C7: in production without eager artifact the first AMP request invokes the
\* preprocessor exactly once and its result is stored in the lazy cell; once the
\* cell is filled its value never changes, and an AMP request that checks the
\* cache afterwards takes the stored value without invoking the preprocessor.
C7_LazyCellFilledOnce ==
  [][ (isProd /\ prodAmpCss = Undefined) =>
        /\ fallbackProdAmpCss # Undefined => fallbackProdAmpCss' = fallbackProdAmpCss
        /\ \A r \in Req :
             \* r performs its cache check in this step
             /\ (~req[r].cacheRead /\ req'[r].cacheRead) =>
                  IF fallbackProdAmpCss # Undefined
                    THEN /\ req'[r].lessInvoked = 0
                         /\ lessCalls' = lessCalls
                         /\ AmpRendered(req'[r])
                         /\ req'[r].scope.styles = fallbackProdAmpCss
                    ELSE /\ req'[r].lessInvoked = 1
                         /\ lessCalls' = lessCalls + 1
                         /\ req'[r].pc = "less"
             \* r's preprocessor call returns in this step
             /\ (req[r].pc = "less" /\ req'[r].pc = "render") =>
                  /\ req'[r].lessInvoked = 1
                  /\ fallbackProdAmpCss' = Str(lessOutput)
                  /\ req'[r].scope.styles = fallbackProdAmpCss'
    ]_vars

\* the first AMP request filled the cell with '', a later one reused it
C7_Witness ==
  /\ isProd
  /\ prodAmpCss = Undefined
  /\ fallbackProdAmpCss = Str(<<>>)
  /\ AmpRendered(req[1]) /\ req[1].lessInvoked = 1 /\ req[1].cellWrites = 1
  /\ AmpRendered(req[2]) /\ req[2].lessInvoked = 0 /\ req[2].cacheRead
  /\ req[2].scope.styles = fallbackProdAmpCss

\* C8 as stated: in production the preprocessor is invoked at most once over
\* the process lifetime, also when AMP requests overlap.
C8_AtMostOneInvocation == isProd => lessCalls <= 1

\* C8 as amended: in production a preprocessor invocation starts only at a cache
\* check that finds the eager value absent and the lazy cell empty, once per such
\* request; after the cell is filled none starts, while requests that check
\* before that each invoke it.
C8_InvocationOnlyWhileCellEmpty ==
  /\ [](isProd => /\ \A r \in Req : req[r].lessInvoked <= 1
                  /\ Cardinality({r \in Req : req[r].lessInvoked = 1}) = lessCalls)
  /\ [][ (isProd /\ lessCalls' # lessCalls) =>
           /\ lessCalls' = lessCalls + 1
           /\ prodAmpCss = Undefined
           /\ fallbackProdAmpCss = Undefined ]_vars

\* two overlapping AMP requests both invoked the preprocessor and the cell is filled
C8_Witness ==
  /\ isProd
  /\ lessCalls = 2
  /\ fallbackProdAmpCss # Undefined
  /\ \A r \in 1..2 : req[r].lessInvoked = 1 /\ req[r].cellWrites = 1

\* C9: in non-production the eager value is absent and the lazy cell is empty in
\* every state, and every AMP request (a valid /schedule/<id>) invokes the
\* preprocessor once, however many AMP requests completed before it.
C9_NonProdNeverPersists ==
  ~isProd =>
    /\ prodAmpCss = Undefined
    /\ fallbackProdAmpCss = Undefined
    /\ \A r \in Req :
         /\ req[r].cellWrites = 0
         /\ (ScheduleSub(req[r]) /\ ValidSession(req[r].rest.v)) =>
              req[r].lessInvoked = 1 /\ req[r].cacheRead

\* a second AMP request invoked the preprocessor after the first one completed
C9_Witness ==
  /\ ~isProd
  /\ AmpRendered(req[1]) /\ req[1].pc = "done" /\ req[1].lessInvoked = 1
  /\ ScheduleSub(req[2]) /\ ValidSession(req[2].rest.v)
  /\ req[2].pc = "less" /\ req[2].lessInvoked = 1
  /\ lessCalls = 2

----------------------------------------------------------------------------
(* C10: the mount-path resolver *)

\* p occurs in s at 0-based position i
OccursAt(s, p, i) ==
  /\ i >= 0
  /\ i + Len(p) <= Len(s)
  /\ \A k \in 1..Len(p) : s[i + k] = p[k]

\* the prefix of s before the last occurrence of p, '' when p does not occur
BeforeLastOccurrence(s, p) ==
  IF \E i \in 0..Len(s) : OccursAt(s, p, i)
    THEN LET last == CHOOSE i \in 0..Len(s) :
                       OccursAt(s, p, i) /\ \A j \in (i + 1)..Len(s) : ~OccursAt(s, p, j)
         IN  [k \in 1..last |-> s[k]]
    ELSE <<>>

\* C10: mountUrl returns '' when the original path is undefined, '' when the
\* current path does not occur in it, and otherwise the prefix of the original
\* path before the last occurrence of the current path; ('/app/schedule/abc',
\* '/schedule/abc') gives '/app' and equal paths give ''.
C10_MountUrlLastOccurrence ==
  mResult # Undefined =>
    /\ mResult.t = "string"
    /\ mOriginal = Undefined => mResult.v = <<>>
    /\ mOriginal # Undefined => mResult.v = BeforeLastOccurrence(mOriginal.v, mCurrent)
    /\ (mOriginal = Str(sAppScheduleAbc) /\ mCurrent = sScheduleAbc) => mResult.v = sApp
    /\ mOriginal = Str(mCurrent) => mResult.v = <<>>

\* resolved for an original path in which the current path occurs twice
C10_Witness ==
  /\ mOriginal = Str(<<"/","a","/","a">>)
  /\ mCurrent = <<"/","a">>
  /\ mResult = Str(<<"/","a">>)

----------------------------------------------------------------------------
(* C11..C13: header, preprocessor failure, reserved ids *)

\* C11: every request that reaches Rendered carries the precomputed
\* Feature-Policy value, and carried it already when ctx.render was called; a
\* request that ends Deferred has no header set by the dispatcher.
C11_HeaderBeforeRender ==
  \A r \in Req :
    LET q == req[r] IN
    /\ q.outcome = "Rendered" =>
         /\ q.header = policyHeader(isProd)
         /\ q.headerAtRender = policyHeader(isProd)
    /\ q.outcome = "Deferred" =>
         /\ q.header = Undefined
         /\ q.headerAtRender = Undefined

\* an AMP request rendered after its preprocessor call, and a deferred request
C11_Witness ==
  /\ AmpRendered(req[1]) /\ req[1].lessInvoked = 1
  /\ req[1].headerAtRender = policyHeader(isProd)
  /\ req[2].outcome = "Deferred" /\ req[2].header = Undefined

\* the preprocessor call of r is rejected in this step
FailsNow(r) == req[r].pc = "less" /\ req'[r].pc = "done"

\* r evaluates prodAmpCss || fallbackProdAmpCss in this step
ChecksCacheNow(r) == ~req[r].cacheRead /\ req'[r].cacheRead

\* what a failed AMP request leaves behind
FailedCleanly(q) ==
  /\ q.outcome = "Failed"
  /\ q.promise = "rejected"
  /\ q.lessInvoked = 1
  /\ q.rendered = Undefined
  /\ q.renderCalls = 0
  /\ q.nextCalls = 0
  /\ q.header = Undefined
  /\ q.cellWrites = 0

\* C12 as stated: a preprocessor failure propagates without recovery or retry,
\* the request renders nothing, does not call next, sets no header and leaves
\* the lazy cell unchanged and still empty, so that a later AMP request invokes
\* the preprocessor again.
C12_FailureLeavesCellEmpty ==
  [][ \A r \in Req : FailsNow(r) =>
        /\ FailedCleanly(req'[r])
        /\ fallbackProdAmpCss' = fallbackProdAmpCss
        /\ fallbackProdAmpCss' = Undefined ]_vars

\* C12 as amended: the failure propagates without recovery or retry, the request
\* renders nothing, does not call next, sets no header and leaves the lazy cell
\* unchanged; while the cell is still empty a later AMP request invokes the
\* preprocessor again.
C12_FailurePropagates ==
  /\ [](\A r \in Req :
          /\ req[r].lessInvoked <= 1
          /\ (req[r].pc = "done" /\ req[r].lessInvoked = 1 /\ req[r].outcome # "Rendered")
               => FailedCleanly(req[r]))
  /\ [][ \A r \in Req : FailsNow(r) =>
           /\ FailedCleanly(req'[r])
           /\ fallbackProdAmpCss' = fallbackProdAmpCss
           /\ lessCalls' = lessCalls ]_vars
  /\ [][ \A r, p \in Req :
           (req[r].outcome = "Failed" /\ fallbackProdAmpCss = Undefined /\ ChecksCacheNow(p)) =>
             /\ req'[p].lessInvoked = 1
             /\ lessCalls' = lessCalls + 1 ]_vars

\* in production a request failed, the cell is empty and the next request renders again
C12_Witness ==
  /\ isProd
  /\ FailedCleanly(req[1])
  /\ fallbackProdAmpCss = Undefined
  /\ req[2].pc = "less" /\ req[2].lessInvoked = 1
  /\ lessCalls = 2

\* a request for /schedule/<id> with <id> starting with '_'
ReservedSub(q) == ScheduleSub(q) /\ q.rest.v[1] = "_"

\* C13 as stated: for /schedule/<id> with <id> starting with '_' the dispatcher
\* defers without performing any lookup of <id> in the session mapping.
C13_ReservedNeverLookedUp ==
  \A r \in Req :
    ReservedSub(req[r]) => req[r].outcome = "Deferred" /\ ~req[r].lookedUp

\* C13 as amended: for /schedule/<id> with <id> starting with '_' the dispatcher
\* indexes the session mapping with <id> but never uses what it finds: it defers
\* to the next handler, reads no field of the record, puts nothing of it in the
\* context, renders nothing and does not touch the CSS cache.
C13_ReservedNeverUsed ==
  \A r \in Req :
    LET q == req[r] IN
    ReservedSub(q) =>
      /\ q.lookedUp
      /\ q.outcome = "Deferred"
      /\ q.nextCalls = 1
      /\ q.renderCalls = 0
      /\ q.rendered = Undefined
      /\ DOMAIN q.scope \cap AmpFields = {}
      /\ ~q.cacheRead
      /\ q.lessInvoked = 0

\* /schedule/_x, a reserved id that is present in the mapping, has been deferred
C13_Witness ==
  \E r \in Req :
    /\ ReservedSub(req[r])
    /\ req[r].rest.v \in DOMAIN Sessions
    /\ req[r].outcome = "Deferred"

----------------------------------------------------------------------------
(* C14: the section registry *)

\* the entry ends in '.html'
HasContentExtension(e) ==
  /\ Len(e) >= 5
  /\ \A k \in 1..5 : e[Len(e) - 5 + k] = sDotHtml[k]

\* the entry without its last five characters
Stripped(e) == [k \in 1..(Len(e) - 5) |-> e[k]]

\* the entries that end in '.html' and do not begin with '_'
Qualifying == { dirEntries[i] : i \in { j \in 1..Len(dirEntries) :
                  HasContentExtension(dirEntries[j]) /\ dirEntries[j][1] # "_" } }

RegisteredNames == { sections[i] : i \in 1..Len(sections) }

\* C14 as stated: the registry is exactly the set of entry names that end in
\* '.html' and do not begin with '_', each with the extension stripped; no
\* registered name begins with '_' and entries without the extension are dropped.
C14_RegistryExactlyQualifying ==
  scanned =>
    /\ RegisteredNames = { Stripped(e) : e \in Qualifying }
    /\ \A i \in 1..Len(sections) : sections[i] = <<>> \/ sections[i][1] # "_"

\* C14 as amended: the registry is exactly the set of entry names that end in
\* '.html', do not begin with '_' and are longer than the extension, each with
\* the extension stripped (an entry named '.html' is dropped); no registered
\* name begins with '_' and entries without the extension are dropped.
C14_RegistryNonEmptyQualifying ==
  scanned =>
    /\ RegisteredNames = { Stripped(e) : e \in { f \in Qualifying : Len(f) > 5 } }
    /\ Len(sections) = Cardinality(RegisteredNames)
    /\ \A i \in 1..Len(sections) : sections[i] # <<>> /\ sections[i][1] # "_"
    /\ \A i \in 1..Len(dirEntries) :
         ~HasContentExtension(dirEntries[i]) =>
           \A j \in 1..Len(sections) : sections[j] \o sDotHtml # dirEntries[i]

\* a listing with an '_' entry, an entry without extension and a section was scanned
C14_Witness ==
  /\ scanned
  /\ dirEntries = << <<"_","a">> \o sDotHtml, <<"b">>, <<"a">> \o sDotHtml >>
  /\ sections = << <<"a">> >>

----------------------------------------------------------------------------
(* C15..C17: requests do not influence each other's context *)

\* r and p carry the same path, sub-path, host and urls
SameRequest(q, o) ==
  /\ q.argPath = o.argPath
  /\ q.rest = o.rest
  /\ q.host = o.host
  /\ q.url = o.url
  /\ q.originalUrl = o.originalUrl

C16_DuplicateWritesSameValue ==
  (isProd /\ prodAmpCss = Undefined) =>
    /\ Cardinality({ r \in Req : req[r].lessInvoked = 1 }) = lessCalls
    /\ \A r \in Req :
         LET q == req[r] IN
         /\ q.lessInvoked = 1 => (q.pc = "less" \/ q.outcome \in {"Rendered", "Failed"})
         /\ (q.lessInvoked = 1 /\ q.outcome = "Rendered") =>
              /\ q.cellWrites = 1
              /\ fallbackProdAmpCss = Str(lessOutput)
              /\ q.scope.styles = fallbackProdAmpCss
         /\ AmpRendered(q) => q.scope.styles # Undefined /\ q.scope.styles = Str(lessOutput)

\* both requests invoked the preprocessor, both wrote the cell and both are done
C16_Witness ==
  /\ isProd
  /\ prodAmpCss = Undefined
  /\ \A r \in 1..2 :
       /\ req[r].lessInvoked = 1 /\ req[r].cellWrites = 1
       /\ AmpRendered(req[r]) /\ req[r].pc = "done"
       /\ req[r].scope.styles = fallbackProdAmpCss

\* C17: the context is assembled for each request on its own: a plain section
\* request is rendered with layout 'devsummit', its own template and no AMP
\* field also while an AMP request is in flight, and an AMP request's payload,
\* title, base and site prefix come from its own record and its own ctx.
C17_ContextNeverShared ==
  \A r \in Req :
    LET q == req[r] IN
    /\ (q.outcome = "Rendered" /\ ~NonEmptyRest(q)) =>
         /\ q.rendered = Str(q.argPath)
         /\ q.scope.layout = sDevsummit
         /\ q.scope.base = q.basepath
         /\ DOMAIN q.scope \cap AmpFields = {}
    /\ AmpRendered(q) =>
         /\ q.scope.layout = sAmp
         /\ q.scope.base = q.basepath
         /\ q.scope.payload = q.data
         /\ q.rest.v \in DOMAIN Sessions =>
              /\ q.scope.payload = Obj(Sessions[q.rest.v])
              /\ q.scope.title = FieldOrEmpty(Sessions[q.rest.v], "name")
    /\ Started(q) /\ DOMAIN q.scope # {} => q.scope.base = q.basepath

\* /schedule rendered plainly while an AMP request is suspended in ctx.render
C17_Witness ==
  /\ AmpRendered(req[1]) /\ req[1].pc = "render" /\ req[1].rest = Str(<<"a">>)
  /\ req[2].argPath = sSchedule /\ ~NonEmptyRest(req[2])
  /\ req[2].outcome = "Rendered" /\ req[2].scope.layout = sDevsummit

----------------------------------------------------------------------------
(* C18..C20: progress, mount prefixes, exclusive outcomes *)

Suspended(q) == q.pc \in {"less", "render"}

\* p is the next request to enter the callback
NextToArrive(p) == req[p].pc = "idle" /\ \A o \in Req : o < p => req[o].pc # "idle"

\* C18: a request suspended in less.render or ctx.render holds no lock: the next
\* request can still be Rendered or Deferred and any other suspended request
\* can resume; and, every less.render and ctx.render call eventually settling,
\* every request that entered the callback reaches a terminal outcome.
C18_SuspensionBlocksNobody ==
  /\ [](\A r, p \in Req :
          Suspended(req[r]) =>
            /\ NextToArrive(p) => /\ ENABLED RenderPlain(p)
                                  /\ ENABLED DeferUnmatched(p)
                                  /\ ENABLED DeferSession(p)
            /\ req[p].pc = "less" => ENABLED LessReturn(p)
            /\ req[p].pc = "render" => ENABLED RenderReturn(p))
  /\ \A r \in Req :
       Started(req[r]) ~>
         (req[r].pc = "done" /\ req[r].outcome \in {"Rendered", "Deferred", "Failed"})

\* the second request completed while the first is still suspended in less.render
C18_Witness ==
  /\ req[1].pc = "less"
  /\ req[2].pc = "done"
  /\ req[2].outcome = "Rendered"

\* c is a suffix of s
IsSuffix(c, s) ==
  /\ Len(c) <= Len(s)
  /\ \A k \in 1..Len(c) : s[Len(s) - Len(c) + k] = c[k]

\* C19: for every prefix P and current path C, mountUrl(P + C, C) is P: whenever
\* the current path is a suffix of the original path, the result followed by
\* the current path is the original path.
C19_PrefixRecovered ==
  (mResult # Undefined /\ mOriginal # Undefined /\ IsSuffix(mCurrent, mOriginal.v)) =>
    /\ Len(mResult.v) = Len(mOriginal.v) - Len(mCurrent)
    /\ \A k \in 1..Len(mResult.v) : mResult.v[k] = mOriginal.v[k]
    /\ mResult.v \o mCurrent = mOriginal.v

\* a prefix that itself contains the current path has been recovered
C19_Witness ==
  /\ mOriginal = Str(<<"/","a","a">>)
  /\ mCurrent = <<"a">>
  /\ mResult = Str(<<"/","a">>)

\* C20: within one request next is called at most once and ctx.render at most
\* once, never both; Deferred is exactly one call of next, Rendered exactly one
\* call of ctx.render, and a Deferred request has set no header and written no
\* lazy cell.
C20_OutcomesExclusive ==
  \A r \in Req :
    LET q == req[r] IN
    /\ q.nextCalls + q.renderCalls <= 1
    /\ q.outcome = "Deferred" <=> q.nextCalls = 1
    /\ q.outcome = "Rendered" <=> q.renderCalls = 1
    /\ q.outcome = "Deferred" =>
         /\ q.header = Undefined
         /\ q.cellWrites = 0
         /\ q.lessInvoked = 0
         /\ q.rendered = Undefined
    /\ q.pc = "done" => q.outcome \in {"Deferred", "Rendered", "Failed"}

\* one request was deferred after the session lookup, another one rendered
C20_Witness ==
  /\ req[1].outcome = "Deferred" /\ req[1].lookedUp /\ req[1].nextCalls = 1
  /\ req[2].outcome = "Rendered" /\ req[2].renderCalls = 1 /\ req[2].nextCalls = 0
  /\ req[2].pc = "done"

====
